---- MODULE Spec2Model ----
(***************************************************************************)
(* The per-voice processor graph of TwytchVoiceHandler and its modulation  *)
(* matrix (src/src/twytch_voice_handler.cpp).                              *)
(*                                                                         *)
(* Processors, Outputs and Values are named after the C++ variables that   *)
(* hold them.  The default output of a processor is named like the         *)
(* processor; a second output is "<processor>.<index>".  Signal values are *)
(* fixed-point numbers in units of one twentieth (FixedOne = 1.0).         *)
(***************************************************************************)
EXTENDS Integers, Sequences, FiniteSets, TLC

VARIABLES
  processors,         \* per-voice evaluation list (addProcessor order)
  global_processors,  \* shared evaluation list (addGlobalProcessor order)
  acc_inputs,         \* accumulator (VariableAdd) -> sequence of plugged inputs
  node_inputs,        \* modulation Multiply node -> <<source output, scale Value>>
  controls,           \* controls_ : name -> Value
  mod_sources,        \* mod_sources_ : name -> Output
  mod_destinations,   \* mod_destinations_ : name -> accumulator (or NULL)
  modulation_lookup,  \* modulation_lookup_ : scale Value -> Multiply node
  value,              \* content of every Value
  out,                \* output buffer of every evaluated processor
  pc,                 \* "running", "aborted" (fatal assertion) or "crashed"
  block,              \* number of blocks evaluated so far
  lastOp,             \* the last call made on the voice handler and its result
  live,               \* scale identities connected and not yet disconnected
  paired,             \* every call so far connected a fresh identity or undid
                      \* a live one through the destination it was made with
  voice               \* the articulation stage: trigger outputs, envelope
                      \* state and latched signals of the last sample

vars == <<processors, global_processors, acc_inputs, node_inputs, controls,
          mod_sources, mod_destinations, modulation_lookup, value, out, pc,
          block, lastOp, live, paired, voice>>

----------------------------------------------------------------------------
(* Bounds of the model.                                                    *)

\* number of Multiply nodes connectModulation may allocate in one run
MaxNodes == 2
\* number of step-sequencer steps (MAX_STEPS is set outside the shown files)
MaxSteps == 2
\* number of blocks evaluated in one run
MaxBlocks == 2
\* capacity every VariableAdd is constructed with (the constant is set
\* outside the shown files; scaled down so that MaxNodes connections reach it)
MAX_MODULATION_CONNECTIONS == 2

----------------------------------------------------------------------------
(* Numbers.                                                                *)

\* 1.0 in the fixed-point representation (units of one twentieth)
FixedOne == 20

NULL == "NULL"

RECURSIVE SumSeq(_)
SumSeq(s) == IF s = <<>> THEN 0 ELSE Head(s) + SumSeq(Tail(s))

Range(s) == {s[i] : i \in 1..Len(s)}

\* the sequence s without the elements equal to x, order kept
RemoveFromSeq(s, x) == SelectSeq(s, LAMBDA e : e # x)

----------------------------------------------------------------------------
(* The graph as the constructor leaves it.                                 *)

\* addProcessor calls of createArticulation, in order
ArticulationProcessors ==
  << "legato_filter", "amplitude_envelope_", "note_change_trigger_",
     "note_wait", "current_note", "note_from_center_", "note_percentage",
     "velocity_wait", "current_velocity", "velocity_track_mult",
     "amplitude_", "portamento_filter", "current_frequency_" >>

\* addProcessor calls of createOscillators, in order
OscillatorProcessors ==
  << "bent_midi", "midi_mod_sources", "midi_mod", "final_midi",
     "cross_mod_sources", "oscillator1_frequency", "oscillators_",
     "oscillator2_transposed", "oscillator2_midi", "oscillator2_frequency",
     "oscillator_mix_", "osc_mix_sources", "clamp_mix",
     "osc_feedback_transposed", "osc_feedback_midi",
     "osc_feedback_frequency", "osc_feedback_period", "osc_feedback_",
     "lfo1_", "lfo2_", "step_sequencer_" >>

\* addProcessor calls of createFilter, in order
FilterProcessors ==
  << "filter_envelope_", "note_off", "filter_env_trigger", "scaled_envelope",
     "current_keytrack", "saturated_audio", "keytracked_cutoff",
     "midi_cutoff", "cutoff_mod_sources", "cutoff_modulation_scaled",
     "midi_cutoff_modulated", "resonance_sources", "final_resonance",
     "decibals", "final_gain", "frequency_cutoff", "filter_",
     "distorted_filter_" >>

\* the per-voice list when the constructor returns
InitProcessors ==
  ArticulationProcessors \o OscillatorProcessors \o FilterProcessors
    \o << "output_" >>

\* variant: lfo1_, whose reset is a per-voice trigger, is global as well
InitGlobalProcessors_WithLfo ==
  << "amplitude_sustain", "center_adjust", "pitch_bend", "base_cutoff",
     "pitch_wheel_amount_", "mod_wheel_amount_", "lfo1_" >>

\* the global list when the constructor returns
InitGlobalProcessors ==
  << "amplitude_sustain", "center_adjust", "pitch_bend", "base_cutoff",
     "pitch_wheel_amount_", "mod_wheel_amount_" >>

\* the key "step seq " + num of step i, num being std::to_string(i) padded
\* with "0" to two characters
StepKey(i) ==
  << "step seq 00", "step seq 01", "step seq 02", "step seq 03",
     "step seq 04", "step seq 05" >>[i + 1]

\* the Value created for step i
StepValue(i) ==
  << "step_00", "step_01", "step_02", "step_03", "step_04", "step_05" >>[i + 1]

\* controls_ when the constructor returns
InitControls ==
  LET named ==
        ( "legato" :> "legato" )
     @@ ( "amp attack" :> "amplitude_attack" )
     @@ ( "amp decay" :> "amplitude_decay" )
     @@ ( "amp sustain" :> "amplitude_sustain" )
     @@ ( "amp release" :> "amplitude_release" )
     @@ ( "velocity track" :> "velocity_track_amount" )
     @@ ( "portamento" :> "portamento" )
     @@ ( "portamento type" :> "portamento_type" )
     @@ ( "pitch bend range" :> "pitch_bend_range" )
     @@ ( "cross modulation" :> "cross_mod" )
     @@ ( "osc 1 waveform" :> "oscillator1_waveform" )
     @@ ( "osc 2 waveform" :> "oscillator2_waveform" )
     @@ ( "osc 2 transpose" :> "oscillator2_transpose" )
     @@ ( "osc 2 tune" :> "oscillator2_tune" )
     @@ ( "osc mix" :> "oscillator_mix_amount" )
     @@ ( "osc feedback transpose" :> "osc_feedback_transpose" )
     @@ ( "osc feedback amount" :> "osc_feedback_amount" )
     @@ ( "osc feedback tune" :> "osc_feedback_tune" )
     @@ ( "lfo 1 waveform" :> "lfo1_waveform" )
     @@ ( "lfo 1 frequency" :> "lfo1_frequency" )
     @@ ( "lfo 2 waveform" :> "lfo2_waveform" )
     @@ ( "lfo 2 frequency" :> "lfo2_frequency" )
     @@ ( "num steps" :> "num_steps" )
     @@ ( "step frequency" :> "step_frequency" )
     @@ ( "fil attack" :> "filter_attack" )
     @@ ( "fil decay" :> "filter_decay" )
     @@ ( "fil sustain" :> "filter_sustain" )
     @@ ( "fil release" :> "filter_release" )
     @@ ( "fil env depth" :> "filter_envelope_depth" )
     @@ ( "filter type" :> "filter_type" )
     @@ ( "filter saturation" :> "filter_saturation" )
     @@ ( "cutoff" :> "base_cutoff" )
     @@ ( "keytrack" :> "keytrack_amount" )
     @@ ( "resonance" :> "resonance" )
      steps == [k \in {StepKey(i) : i \in 0..(MaxSteps - 1)} |->
                  StepValue(CHOOSE i \in 0..(MaxSteps - 1) : StepKey(i) = k)]
  IN  named @@ steps

\* mod_sources_ when the constructor returns
InitModSources ==
     ( "pitch wheel" :> "pitch_wheel_amount_" )
  @@ ( "mod wheel" :> "mod_wheel_amount_" )
  @@ ( "amplitude env" :> "amplitude_envelope_" )
  @@ ( "note" :> "note_percentage" )
  @@ ( "velocity" :> "current_velocity" )
  @@ ( "step sequencer" :> "step_sequencer_" )
  @@ ( "lfo 1" :> "lfo1_" )
  @@ ( "lfo 2" :> "lfo2_" )
  @@ ( "filter env" :> "filter_envelope_" )

\* mod_destinations_ when the constructor returns
InitModDestinations ==
     ( "cross modulation" :> "cross_mod_sources" )
  @@ ( "pitch" :> "midi_mod_sources" )
  @@ ( "osc mix" :> "osc_mix_sources" )
  @@ ( "cutoff" :> "cutoff_mod_sources" )
  @@ ( "resonance" :> "resonance_sources" )

\* variant: the mix accumulator is built without its base Value
InitAccInputs_NoMixBase ==
     ( "midi_mod_sources" :> << >> )
  @@ ( "cross_mod_sources" :> << "cross_mod" >> )
  @@ ( "osc_mix_sources" :> << >> )
  @@ ( "cutoff_mod_sources" :> << >> )
  @@ ( "resonance_sources" :> << "resonance" >> )

\* the inputs plugged into each VariableAdd when the constructor returns
InitAccInputs ==
     ( "midi_mod_sources" :> << >> )
  @@ ( "cross_mod_sources" :> << "cross_mod" >> )
  @@ ( "osc_mix_sources" :> << "oscillator_mix_amount" >> )
  @@ ( "cutoff_mod_sources" :> << >> )
  @@ ( "resonance_sources" :> << "resonance" >> )

----------------------------------------------------------------------------
(* The arguments the calls are made with.                                  *)

\* the scale Values a caller owns (their identity is their name)
Scales == { "scale_a", "scale_b" }

\* source names passed to connectModulation; the last is in no registry
FromNames == { "lfo 1", "lfo 2", "no such source" }

\* destination names passed to the calls; the last is in no registry
ToNames == { "osc mix", "cutoff", "no such destination" }

\* the i-th Multiply allocated by connectModulation (new never returns the
\* address of an object that is still allocated, and no node is deleted)
NodeName(i) ==
  << "modulation_scale_1", "modulation_scale_2", "modulation_scale_3",
     "modulation_scale_4", "modulation_scale_5", "modulation_scale_6" >>[i]

AllNodes == { NodeName(i) : i \in 1..6 }

\* the Multiply nodes allocated so far
Nodes == DOMAIN node_inputs

----------------------------------------------------------------------------
(* The router and processor primitives the voice handler calls.            *)

\* ProcessorRouter::addProcessor: p goes to the end of the evaluation list
AddProcessor(list, p) == Append(list, p)

\* ProcessorRouter::removeProcessor: p leaves the evaluation list
RemoveProcessor(list, p) == RemoveFromSeq(list, p)

\* Processor::plugNext: p becomes the next input of the accumulator
PlugNext(ins, p) == Append(ins, p)

\* Processor::unplug: p is no longer an input of the accumulator
Unplug(ins, p) == RemoveFromSeq(ins, p)

\* MOPO_ASSERT(cond): a failed assertion is fatal
AssertFails(cond) == ~cond

\* what a call through a null Processor* can do: fault, or return having
\* done nothing
NullCallOutcomes == { "crashed", "running" }

----------------------------------------------------------------------------
(* Block evaluation.                                                       *)

\* variant: the Interpolate takes its fraction from the accumulator
InitPlugs_Unclamped ==
     ( "clamp_mix" :> << "osc_mix_sources" >> )
  @@ ( "oscillator_mix_" :>
         << "oscillators_", "oscillators_.1", "osc_mix_sources" >> )

\* the inputs of the constructed processors whose output the model computes
InitPlugs ==
     ( "clamp_mix" :> << "osc_mix_sources" >> )
  @@ ( "oscillator_mix_" :> << "oscillators_", "oscillators_.1", "clamp_mix" >> )

\* the constructed processors whose signal comes from outside the model:
\* the two LFOs and the two outputs of the oscillator pair
Generators == { "lfo1_", "lfo2_", "oscillators_" }

\* the signals a generator can produce in one block
LfoLevels == { -FixedOne, FixedOne }
OscLevels == { << -FixedOne, FixedOne >>, << FixedOne, 0 >> }
Signals ==
  { [lfo1_ |-> l, lfo2_ |-> -l, oscillators_ |-> osc] :
      l \in LfoLevels, osc \in OscLevels }

\* the contents a caller stores in a Value
ValueChoices == { -FixedOne, 0, FixedOne }

\* Multiply: the product of its two inputs
Multiply(a, b) == (a * b) \div FixedOne

\* Clamp(min, max)
Clamp(x, min, max) == IF x < min THEN min ELSE IF x > max THEN max ELSE x

\* Interpolate: from + fraction * (to - from)
Interpolate(from, to, fraction) == from + ((to - from) * fraction) \div FixedOne

\* what a reader of output x sees: a Value that is in no evaluation list
\* shows its content, a processor the buffer it last wrote
OutputOf(x, o) == IF x \in DOMAIN value THEN value[x] ELSE o[x]

\* one processor of the evaluation list computes its output buffer from
\* what its inputs show now
Process(p, o, signals) ==
  IF p \in DOMAIN acc_inputs
  THEN [o EXCEPT ![p] =
          SumSeq([i \in 1..Len(acc_inputs[p]) |->
                    OutputOf(acc_inputs[p][i], o)])]
  ELSE IF p \in Nodes
  THEN [o EXCEPT ![p] = Multiply(OutputOf(node_inputs[p][1], o),
                                 OutputOf(node_inputs[p][2], o))]
  ELSE IF p = "clamp_mix"
  THEN [o EXCEPT ![p] = Clamp(OutputOf(InitPlugs[p][1], o), 0, FixedOne)]
  ELSE IF p = "oscillator_mix_"
  THEN [o EXCEPT ![p] = Interpolate(OutputOf(InitPlugs[p][1], o),
                                    OutputOf(InitPlugs[p][2], o),
                                    OutputOf(InitPlugs[p][3], o))]
  ELSE IF p = "oscillators_"
  THEN [o EXCEPT ![p] = signals.oscillators_[1],
                 !["oscillators_.1"] = signals.oscillators_[2]]
  ELSE IF p = "lfo1_" THEN [o EXCEPT ![p] = signals.lfo1_]
  ELSE IF p = "lfo2_" THEN [o EXCEPT ![p] = signals.lfo2_]
  ELSE o

\* the processors of a list whose output the model follows (Process leaves
\* the buffers as they are for every other processor)
Followed(list) ==
  SelectSeq(list, LAMBDA p : \/ p \in DOMAIN acc_inputs \cup Nodes
                             \/ p \in DOMAIN InitPlugs \cup Generators)

\* the processors of a list are evaluated once each, in the order of the list
ProcessAll(list, o, signals) ==
  LET todo == Followed(list)
      after[i \in 0..Len(todo)] ==
        IF i = 0 THEN o ELSE Process(todo[i], after[i - 1], signals)
  IN  after[Len(todo)]

\* the buffers whose content the model follows, cleared at construction
InitOut ==
  [x \in DOMAIN InitAccInputs \cup DOMAIN InitPlugs \cup Generators
           \cup {"oscillators_.1"} |-> 0]

\* the content of the Values the followed processors read: cross_mod 0.15,
\* oscillator_mix_amount 0.5, resonance 0.5, and the callers' scale Values
InitValue ==
     ( "cross_mod" :> 3 )
  @@ ( "oscillator_mix_amount" :> 10 )
  @@ ( "resonance" :> 10 )
  @@ [sc \in Scales |-> FixedOne]

----------------------------------------------------------------------------
(* The articulation stage: triggers, the amplitude envelope, the latches.  *)

\* the Outputs of the voice handler itself that createArticulation is given
ExternalOutputs == { "note", "velocity", "voice_event" }

\* variant: the envelope is triggered by the raw voice event
AmplitudeEnvelopeTrigger_Raw == "voice_event"

\* variant: the envelope is triggered by the remain output instead
AmplitudeEnvelopeTrigger_Remain == "legato_filter.remain"

\* the trigger input of the amplitude envelope
AmplitudeEnvelopeTrigger == "legato_filter.retrigger"

\* the inputs of the note-change TriggerCombiner
NoteChangeInputs ==
  << "legato_filter.remain", "amplitude_envelope_.finished" >>

\* variant: the note latch is triggered by the retrigger output
NoteWaitTrigger_Retrigger == "legato_filter.retrigger"

\* the trigger input of the note latch
NoteWaitTrigger == "note_change_trigger_"

\* the trigger input of the velocity latch
VelocityWaitTrigger == "note_change_trigger_"

\* the Output handed to setVoiceKiller
VoiceKiller == "amplitude_envelope_"

\* the inputs of the processors createArticulation builds
ArticulationPlugs ==
     ( "legato_filter" :> << "legato", "voice_event" >> )
  @@ ( "amplitude_envelope_" :>
         << AmplitudeEnvelopeTrigger, "amplitude_attack", "amplitude_decay",
            "amplitude_sustain", "amplitude_release" >> )
  @@ ( "note_change_trigger_" :> NoteChangeInputs )
  @@ ( "note_wait" :> << "note", NoteWaitTrigger >> )
  @@ ( "current_note" :> << "note_wait" >> )
  @@ ( "note_percentage" :> << "max_midi_invert", "current_note" >> )
  @@ ( "note_from_center_" :> << "center_adjust", "current_note" >> )
  @@ ( "velocity_wait" :> << "velocity", VelocityWaitTrigger >> )
  @@ ( "current_velocity" :> << "velocity_wait" >> )
  @@ ( "velocity_track_mult" :>
         << "value_one", "current_velocity", "velocity_track_amount" >> )
  @@ ( "amplitude_" :> << "amplitude_envelope_", "velocity_track_mult" >> )
  @@ ( "portamento_filter" :>
         << "portamento_type", "note_change_trigger_", "voice_event" >> )
  @@ ( "current_frequency_" :>
         << "current_note", "portamento", "portamento_filter" >> )

\* the kinds a trigger pulse is tagged with; "none" is no pulse this sample
TriggerKinds == { "on", "off", "reset" }

\* the trigger outputs of the articulation stage
TriggerOutputs ==
  { "legato_filter.retrigger", "legato_filter.remain",
    "amplitude_envelope_.finished", "note_change_trigger_" }

\* the signal outputs of the articulation stage the model follows
SignalOutputs ==
  { "amplitude_envelope_", "note_wait", "current_note", "velocity_wait",
    "current_velocity" }

\* the note numbers and velocities the host supplies
Notes == { 60, 64 }
Velocities == { 10, FixedOne }

\* what the host supplies in one sample: a voice event or none, the note
\* and velocity Outputs, and whether the envelope ramp in progress ends
SampleInputs ==
  [ event : {"none", "on", "off"}, note : Notes, velocity : Velocities,
    done : BOOLEAN ]

\* the content of amplitude_sustain, SmoothValue(0.5)
SustainLevel == 10

\* the pulse a trigger input plugged to src sees in this sample
TriggerOf(src, v) ==
  IF src = "voice_event" THEN v.in.event ELSE v.trig[src]

\* the first pulse among the sources, "none" when none of them fires
RECURSIVE AnyTrigger(_, _)
AnyTrigger(srcs, v) ==
  IF srcs = << >> THEN "none"
  ELSE IF TriggerOf(Head(srcs), v) # "none" THEN TriggerOf(Head(srcs), v)
  ELSE AnyTrigger(Tail(srcs), v)

\* LegatoFilter: a voice-on under legato while the last event was a
\* voice-on fires remain; every other event fires retrigger
LegatoFilter(v) ==
  LET ev == TriggerOf(ArticulationPlugs["legato_filter"][2], v)
      stay == ev = "on" /\ v.legato # 0 /\ v.last_trigger = "on"
  IN  [v EXCEPT
        !.trig = [@ EXCEPT
                    !["legato_filter.retrigger"] =
                       IF ev # "none" /\ ~stay THEN ev ELSE "none",
                    !["legato_filter.remain"] =
                       IF ev # "none" /\ stay THEN ev ELSE "none"],
        !.last_trigger = IF ev # "none" THEN ev ELSE @]

\* Envelope: a voice-on restarts the attack, a voice-off releases a sounding
\* envelope, and a ramp that ends moves to the next state; the finished
\* pulse fires when the release ramp ends at zero
Envelope(v) ==
  LET t == TriggerOf(ArticulationPlugs["amplitude_envelope_"][1], v)
      seen == [v EXCEPT !.env_trigger = t,
                        !.trig["amplitude_envelope_.finished"] = "none"]
  IN  IF t = "on" THEN [seen EXCEPT !.state = "attack"]
      ELSE IF t # "none"
      THEN IF v.state \in {"attack", "decay", "sustain"} /\ t = "off"
           THEN [seen EXCEPT !.state = "release"]
           ELSE seen
      ELSE IF ~v.in.done THEN seen
      ELSE IF v.state = "attack"
      THEN [seen EXCEPT !.state = "decay",
                        !.sig["amplitude_envelope_"] = FixedOne]
      ELSE IF v.state = "decay"
      THEN [seen EXCEPT !.state = "sustain",
                        !.sig["amplitude_envelope_"] = SustainLevel]
      ELSE IF v.state = "release"
      THEN [seen EXCEPT !.state = "idle",
                        !.sig["amplitude_envelope_"] = 0,
                        !.trig["amplitude_envelope_.finished"] = "reset"]
      ELSE seen

\* TriggerCombiner: fires when any of its inputs fires
TriggerCombiner(p, v) ==
  [v EXCEPT !.trig[p] = AnyTrigger(ArticulationPlugs[p], v)]

\* TriggerWait: takes the watched Output when its trigger fires, else holds
TriggerWait(p, v) ==
  LET watched == ArticulationPlugs[p][1]
  IN  IF TriggerOf(ArticulationPlugs[p][2], v) = "none" THEN v
      ELSE [v EXCEPT !.sig[p] = v.in[watched]]

\* a Value with an input plugged shows what the input shows
PluggedValue(p, v) ==
  [v EXCEPT !.sig[p] = v.sig[ArticulationPlugs[p][1]]]

\* one processor of the articulation stage computes one sample
VoiceProcess(p, v) ==
  IF p = "legato_filter" THEN LegatoFilter(v)
  ELSE IF p = "amplitude_envelope_" THEN Envelope(v)
  ELSE IF p = "note_change_trigger_" THEN TriggerCombiner(p, v)
  ELSE IF p \in {"note_wait", "velocity_wait"} THEN TriggerWait(p, v)
  ELSE IF p \in {"current_note", "current_velocity"} THEN PluggedValue(p, v)
  ELSE v

\* the articulation processors of a list the model follows
VoiceFollowed(list) ==
  SelectSeq(list, LAMBDA p :
    p \in { "legato_filter", "amplitude_envelope_", "note_change_trigger_",
            "note_wait", "velocity_wait", "current_note",
            "current_velocity" })

\* the processors of the list compute one sample, in the order of the list
VoiceProcessAll(list, v) ==
  LET todo == VoiceFollowed(list)
      after[i \in 0..Len(todo)] ==
        IF i = 0 THEN v ELSE VoiceProcess(todo[i], after[i - 1])
  IN  after[Len(todo)]

\* the articulation stage when the constructor returns: legato is Value(0),
\* the envelope is idle, no trigger has fired, the latches hold 0; onset
\* records the note and velocity supplied with the last voice-on
InitVoice ==
  [ legato |-> 0,
    last_trigger |-> "none",
    state |-> "idle",
    env_trigger |-> "none",
    trig |-> [x \in TriggerOutputs |-> "none"],
    sig |-> [x \in SignalOutputs |-> 0],
    in |-> [event |-> "none", note |-> 60, velocity |-> FixedOne,
            done |-> FALSE],
    onset |-> [note |-> 0, velocity |-> 0] ]

----------------------------------------------------------------------------
(* The plugs of the constructed graph.                                     *)

\* the input of the ResonanceScale that feeds the filter's resonance
FinalResonanceInput == "resonance_sources"

\* the kFractional input of the decibel Interpolate that feeds the gain
DecibalsFraction == "resonance"

\* the inputs of the processors createOscillators builds (clamp_mix and
\* oscillator_mix_ are in InitPlugs); reset is the finished output of the
\* amplitude envelope and midi is current_frequency_
OscillatorPlugs ==
     ( "pitch_bend" :> << "pitch_wheel_amount_", "pitch_bend_range" >> )
  @@ ( "bent_midi" :> << "current_frequency_", "pitch_bend" >> )
  @@ ( "midi_mod" :> << "pitch_mod_range", "midi_mod_sources" >> )
  @@ ( "final_midi" :> << "bent_midi", "midi_mod" >> )
  @@ ( "oscillator1_frequency" :> << "final_midi" >> )
  @@ ( "oscillators_" :>
         << "oscillator1_waveform", "amplitude_envelope_.finished",
            "amplitude_envelope_.finished", "oscillator1_frequency",
            "cross_mod_sources", "cross_mod_sources",
            "oscillator2_waveform", "oscillator2_frequency" >> )
  @@ ( "oscillator2_transposed" :> << "final_midi", "oscillator2_transpose" >> )
  @@ ( "oscillator2_midi" :> << "oscillator2_transposed", "oscillator2_tune" >> )
  @@ ( "oscillator2_frequency" :> << "oscillator2_midi" >> )
  @@ ( "osc_feedback_transposed" :>
         << "final_midi", "osc_feedback_transpose" >> )
  @@ ( "osc_feedback_midi" :>
         << "osc_feedback_transposed", "osc_feedback_tune" >> )
  @@ ( "osc_feedback_frequency" :> << "osc_feedback_midi" >> )
  @@ ( "osc_feedback_period" :> << "osc_feedback_frequency" >> )
  @@ ( "osc_feedback_" :>
         << "oscillator_mix_", "osc_feedback_period", "osc_feedback_amount",
            "value_half" >> )
  @@ ( "lfo1_" :>
         << "amplitude_envelope_.finished", "lfo1_waveform",
            "lfo1_frequency" >> )
  @@ ( "lfo2_" :>
         << "amplitude_envelope_.finished", "lfo2_waveform",
            "lfo2_frequency" >> )
  @@ ( "step_sequencer_" :>
         << "num_steps", "step_frequency" >>
           \o [i \in 1..MaxSteps |-> StepValue(i - 1)] )

\* the inputs of the processors createFilter builds; audio is osc_feedback_,
\* keytrack is note_from_center_, reset is note_change_trigger_ and
\* note_event is voice_event
FilterPlugs ==
     ( "note_off" :> << "voice_event" >> )
  @@ ( "filter_env_trigger" :> << "note_off", "note_change_trigger_" >> )
  @@ ( "filter_envelope_" :>
         << "filter_attack", "filter_decay", "filter_sustain",
            "filter_release", "filter_env_trigger" >> )
  @@ ( "scaled_envelope" :> << "filter_envelope_", "filter_envelope_depth" >> )
  @@ ( "current_keytrack" :> << "note_from_center_", "keytrack_amount" >> )
  @@ ( "keytracked_cutoff" :> << "base_cutoff", "current_keytrack" >> )
  @@ ( "midi_cutoff" :> << "keytracked_cutoff", "scaled_envelope" >> )
  @@ ( "cutoff_modulation_scaled" :>
         << "cutoff_mod_sources", "cutoff_mod_scale" >> )
  @@ ( "midi_cutoff_modulated" :>
         << "midi_cutoff", "cutoff_modulation_scaled" >> )
  @@ ( "frequency_cutoff" :> << "midi_cutoff_modulated" >> )
  @@ ( "final_resonance" :> << FinalResonanceInput >> )
  @@ ( "decibals" :> << "min_db", "max_db", DecibalsFraction >> )
  @@ ( "final_gain" :> << "decibals" >> )
  @@ ( "saturated_audio" :> << "osc_feedback_", "filter_saturation" >> )
  @@ ( "filter_" :>
         << "saturated_audio", "filter_type", "note_change_trigger_",
            "frequency_cutoff", "final_resonance", "final_gain" >> )
  @@ ( "distorted_filter_" :>
         << "filter_", "distortion_type", "distortion_threshold" >> )

\* the inputs of the voice output the constructor builds
OutputPlugs == ( "output_" :> << "distorted_filter_", "amplitude_" >> )

\* the inputs of every constructed processor
ConstructedPlugs ==
  InitPlugs @@ ArticulationPlugs @@ OscillatorPlugs @@ FilterPlugs
    @@ OutputPlugs

\* the processor an Output belongs to
OutputOwner ==
     ( "legato_filter.retrigger" :> "legato_filter" )
  @@ ( "legato_filter.remain" :> "legato_filter" )
  @@ ( "amplitude_envelope_.finished" :> "amplitude_envelope_" )
  @@ ( "oscillators_.1" :> "oscillators_" )

Owner(x) == IF x \in DOMAIN OutputOwner THEN OutputOwner[x] ELSE x

\* the processors, Values and external Outputs whose output q has plugged
Inputs(q) ==
  LET plugged ==
        IF q \in DOMAIN acc_inputs THEN Range(acc_inputs[q])
        ELSE IF q \in Nodes THEN Range(node_inputs[q])
        ELSE IF q \in DOMAIN ConstructedPlugs THEN Range(ConstructedPlugs[q])
        ELSE {}
  IN  { Owner(x) : x \in plugged }

\* seen, and everything reached from the set fresh by following plugs
\* backwards
RECURSIVE ReachFrom(_, _)
ReachFrom(seen, fresh) ==
  IF fresh = {} THEN seen
  ELSE ReachFrom(seen \cup fresh,
                 (UNION { Inputs(x) : x \in fresh }) \ (seen \cup fresh))

\* S and everything reached from it by following plugs backwards
Reach(S) == ReachFrom({}, S)

\* everything the output of q depends on
Upstream(q) == Reach(Inputs(q))

\* the place of p in an evaluation list
Position(list, p) == CHOOSE i \in 1..Len(list) : list[i] = p

----------------------------------------------------------------------------
(* State after construction.                                               *)

Op(op, from, to, scale, res) ==
  [op |-> op, from |-> from, to |-> to, scale |-> scale, res |-> res]

Init ==
  /\ processors = InitProcessors
  /\ global_processors = InitGlobalProcessors
  /\ acc_inputs = InitAccInputs
  /\ node_inputs = << >>
  /\ controls = InitControls
  /\ mod_sources = InitModSources
  /\ mod_destinations = InitModDestinations
  /\ modulation_lookup = << >>
  /\ value = InitValue
  /\ out = InitOut
  /\ pc = "running"
  /\ block = 0
  /\ lastOp = Op("construct", "-", "-", "-", "ok")
  /\ live = {}
  /\ paired = TRUE
  /\ voice = InitVoice

----------------------------------------------------------------------------
(* The modulation matrix.                                                  *)

\* m[k] of a std::map: the mapped value, a null pointer for a missing key
MapGet(m, k) == IF k \in DOMAIN m THEN m[k] ELSE NULL

\* m[k] of a std::map also inserts a missing key, mapped to a null pointer
MapTouch(m, k) == IF k \in DOMAIN m THEN m ELSE m @@ (k :> NULL)

\* the variables no call of the modulation matrix assigns
Untouched == <<global_processors, controls, value, block, voice>>

\* the call ends in a failed MOPO_ASSERT
Abort(call) ==
  /\ pc' = "aborted"
  /\ lastOp' = call
  /\ UNCHANGED <<processors, acc_inputs, node_inputs, mod_sources,
                 mod_destinations, modulation_lookup, out, live, paired>>
  /\ UNCHANGED Untouched

ConnectPrecondition_DestinationOnly(from, to) ==
  to \in DOMAIN mod_destinations

\* the two assertions connectModulation starts with
ConnectPrecondition(from, to) ==
  /\ from \in DOMAIN mod_sources
  /\ to \in DOMAIN mod_destinations

ConnectInputs_EveryAccumulator(acc, modulation_scale) ==
  [a \in DOMAIN acc_inputs |-> PlugNext(acc_inputs[a], modulation_scale)]

\* mod_destinations_[to]->plugNext(modulation_scale)
ConnectInputs(acc, modulation_scale) ==
  [acc_inputs EXCEPT ![acc] = PlugNext(@, modulation_scale)]

\* addProcessor(modulation_scale)
ConnectProcessors(modulation_scale) ==
  AddProcessor(processors, modulation_scale)

ConnectLookup_NotRecorded(scale, modulation_scale) == modulation_lookup

\* modulation_lookup_[scale] = modulation_scale
ConnectLookup(scale, modulation_scale) ==
  (scale :> modulation_scale) @@ modulation_lookup

\* TwytchVoiceHandler::connectModulation(from, to, scale)
ConnectModulation(from, to, scale) ==
  /\ pc = "running"
  /\ Cardinality(Nodes) < MaxNodes
  /\ IF AssertFails(ConnectPrecondition(from, to))
     THEN Abort(Op("connect", from, to, scale, "assert"))
     ELSE LET modulation_scale == NodeName(Cardinality(Nodes) + 1)
              acc == MapGet(mod_destinations, to)
          IN  /\ node_inputs' =
                   (modulation_scale :> << MapGet(mod_sources, from), scale >>)
                     @@ node_inputs
              /\ out' = (modulation_scale :> 0) @@ out
              /\ mod_sources' = MapTouch(mod_sources, from)
              /\ mod_destinations' = MapTouch(mod_destinations, to)
              /\ UNCHANGED Untouched
              /\ IF acc = NULL
                 THEN \* plugNext is called through a null pointer
                      \E outcome \in NullCallOutcomes :
                        /\ pc' = outcome
                        /\ lastOp' =
                             Op("connect", from, to, scale, "null call")
                        /\ paired' = FALSE
                        /\ UNCHANGED acc_inputs
                        /\ IF outcome = "running"
                           THEN /\ processors' =
                                     ConnectProcessors(modulation_scale)
                                /\ modulation_lookup' =
                                     ConnectLookup(scale, modulation_scale)
                                /\ live' = live \cup {scale}
                           ELSE UNCHANGED <<processors, modulation_lookup,
                                            live>>
                 ELSE /\ acc_inputs' = ConnectInputs(acc, modulation_scale)
                      /\ processors' = ConnectProcessors(modulation_scale)
                      /\ modulation_lookup' =
                           ConnectLookup(scale, modulation_scale)
                      /\ lastOp' = Op("connect", from, to, scale, "ok")
                      /\ live' = live \cup {scale}
                      /\ paired' = (paired /\ scale \notin live)
                      /\ UNCHANGED pc

DisconnectPrecondition_None(scale) == TRUE

\* the assertion disconnectModulation starts with
DisconnectPrecondition(scale) == scale \in DOMAIN modulation_lookup

DisconnectProcessors_Kept(modulation_scale) == processors

DisconnectProcessors_EveryNode(modulation_scale) ==
  SelectSeq(processors, LAMBDA p : p \notin Nodes)

\* removeProcessor(modulation_lookup_[scale])
DisconnectProcessors(modulation_scale) ==
  RemoveProcessor(processors, modulation_scale)

DisconnectInputs_Kept(acc, modulation_scale) == acc_inputs

\* mod_destinations_[to]->unplug(modulation_lookup_[scale])
DisconnectInputs(acc, modulation_scale) ==
  [acc_inputs EXCEPT ![acc] = Unplug(@, modulation_scale)]

\* TwytchVoiceHandler::disconnectModulation(to, scale)
DisconnectModulation(to, scale) ==
  /\ pc = "running"
  /\ IF AssertFails(DisconnectPrecondition(scale))
     THEN Abort(Op("disconnect", "-", to, scale, "assert"))
     ELSE LET modulation_scale == MapGet(modulation_lookup, scale)
              acc == MapGet(mod_destinations, to)
          IN  /\ modulation_lookup' = MapTouch(modulation_lookup, scale)
              /\ processors' = DisconnectProcessors(modulation_scale)
              /\ mod_destinations' = MapTouch(mod_destinations, to)
              /\ live' = live \ {scale}
              /\ UNCHANGED <<node_inputs, mod_sources, out>>
              /\ UNCHANGED Untouched
              /\ IF acc = NULL
                 THEN \* unplug is called through a null pointer
                      \E outcome \in NullCallOutcomes :
                        /\ pc' = outcome
                        /\ lastOp' =
                             Op("disconnect", "-", to, scale, "null call")
                        /\ paired' = FALSE
                        /\ UNCHANGED acc_inputs
                 ELSE /\ acc_inputs' = DisconnectInputs(acc, modulation_scale)
                      /\ lastOp' = Op("disconnect", "-", to, scale, "ok")
                      /\ paired' =
                           (/\ paired
                            /\ scale \in live
                            /\ modulation_scale \in Range(acc_inputs[acc]))
                      /\ UNCHANGED pc

----------------------------------------------------------------------------
(* Parameter control and the audio callback.                               *)

\* the Values a caller sets: the "osc mix" control and a scale Value
SettableValues == { InitControls["osc mix"], "scale_a" }

\* Value::set(x) on the Value v
SetValue(v, x) ==
  /\ pc = "running"
  /\ value[v] # x
  /\ value' = [value EXCEPT ![v] = x]
  /\ lastOp' = Op("set", "-", v, "-", "ok")
  /\ UNCHANGED <<processors, global_processors, acc_inputs, node_inputs,
                 controls, mod_sources, mod_destinations, modulation_lookup,
                 out, pc, block, live, paired, voice>>

\* one audio block: the global list, then the per-voice list, each processor
\* once in registration order
ProcessBlock(signals) ==
  /\ pc = "running"
  /\ block < MaxBlocks
  /\ out' = ProcessAll(global_processors \o processors, out, signals)
  /\ block' = block + 1
  /\ lastOp' = Op("process", "-", "-", "-", "ok")
  /\ UNCHANGED <<processors, global_processors, acc_inputs, node_inputs,
                 controls, mod_sources, mod_destinations, modulation_lookup,
                 value, pc, live, paired, voice>>

\* controls_["legato"]->set(x)
SetLegato(x) ==
  /\ pc = "running"
  /\ voice.legato # x
  /\ voice' = [voice EXCEPT !.legato = x]
  /\ lastOp' = Op("set", "-", InitControls["legato"], "-", "ok")
  /\ UNCHANGED <<processors, global_processors, acc_inputs, node_inputs,
                 controls, mod_sources, mod_destinations, modulation_lookup,
                 value, out, pc, block, live, paired>>

\* one sample of the articulation stage: the per-voice list is evaluated in
\* registration order on what the host supplies
ProcessSample(in) ==
  /\ pc = "running"
  /\ voice' = VoiceProcessAll(processors,
                [voice EXCEPT !.in = in,
                              !.onset = IF in.event = "on"
                                        THEN [note |-> in.note,
                                              velocity |-> in.velocity]
                                        ELSE @])
  /\ lastOp' = Op("sample", "-", "-", "-", "ok")
  /\ UNCHANGED <<processors, global_processors, acc_inputs, node_inputs,
                 controls, mod_sources, mod_destinations, modulation_lookup,
                 value, out, pc, block, live, paired>>

----------------------------------------------------------------------------
(* Specifications.                                                         *)

\* the modulation matrix called with every combination of arguments
Next ==
  \/ \E from \in FromNames, to \in ToNames, scale \in Scales :
       ConnectModulation(from, to, scale)
  \/ \E to \in ToNames, scale \in Scales : DisconnectModulation(to, scale)

Spec == Init /\ [][Next]_vars

\* the oscillator-mix destination under modulation, with parameter changes
\* and block evaluation in between the calls
BlockNext ==
  \/ ConnectModulation("lfo 1", "osc mix", "scale_a")
  \/ DisconnectModulation("osc mix", "scale_a")
  \/ \E v \in SettableValues, x \in ValueChoices : SetValue(v, x)
  \/ \E signals \in Signals : ProcessBlock(signals)

BlockSpec == Init /\ [][BlockNext]_vars

\* modulations connected to the oscillator mix and never removed, the base
\* mix amount changed and blocks evaluated in between
MixNext ==
  \/ ConnectModulation("lfo 1", "osc mix", "scale_a")
  \/ \E x \in ValueChoices : SetValue(InitControls["osc mix"], x)
  \/ \E signals \in Signals : ProcessBlock(signals)

MixSpec == Init /\ [][MixNext]_vars

\* the sources the wiring is exercised with: a per-voice and a global one
WiringFromNames == { "lfo 1", "pitch wheel" }

\* modulations connected to and disconnected from every destination
WiringNext ==
  \/ \E from \in WiringFromNames, to \in DOMAIN InitModDestinations :
       ConnectModulation(from, to, "scale_a")
  \/ \E to \in DOMAIN InitModDestinations : DisconnectModulation(to, "scale_a")

WiringSpec == Init /\ [][WiringNext]_vars

\* the articulation stage driven sample by sample, with the legato control
\* switched in between
VoiceNext ==
  \/ \E x \in {0, FixedOne} : SetLegato(x)
  \/ \E in \in SampleInputs : ProcessSample(in)

VoiceSpec == Init /\ [][VoiceNext]_vars

----------------------------------------------------------------------------
(* Vocabulary of the properties.                                           *)

\* the step is a call of op (every step of a call writes lastOp)
Called(op) == lastOp'.op = op

\* the scale identities some connectModulation call has plugged into a node
EverConnected == { node_inputs[n][2] : n \in Nodes }

\* the graph and the registries
GraphAndRegistries ==
  <<processors, acc_inputs, modulation_lookup, controls, mod_sources,
    mod_destinations>>

\* the constructed processors of a list, in order
Constructed(list) == SelectSeq(list, LAMBDA p : p \notin AllNodes)

----------------------------------------------------------------------------
(* Properties of connectModulation and disconnectModulation.               *)

\* C1: a connectModulation call whose source name is not in mod_sources or
\* whose destination name is not in mod_destinations ends in the fatal
\* assertion, and the per-voice list, every accumulator's inputs,
\* modulation_lookup and the three registries are what they were.
C1_ConnectUnknownNameAborts ==
  [][ ( /\ Called("connect")
        /\ \/ lastOp'.from \notin DOMAIN mod_sources
           \/ lastOp'.to \notin DOMAIN mod_destinations )
      => ( /\ pc' = "aborted"
           /\ lastOp'.res = "assert"
           /\ UNCHANGED GraphAndRegistries ) ]_vars

\* a connect with an unknown destination failed while a connection existed
C1_Witness ==
  /\ lastOp.op = "connect"
  /\ lastOp.res = "assert"
  /\ lastOp.from \in DOMAIN mod_sources
  /\ lastOp.to \notin DOMAIN mod_destinations
  /\ pc = "aborted"
  /\ live # {}

\* C2: a disconnectModulation call with a scale identity no connectModulation
\* call was given ends in the fatal assertion with no processor removed and
\* no accumulator unplugged.
C2_DisconnectUnknownScaleAborts ==
  [][ ( /\ Called("disconnect")
        /\ lastOp'.scale \notin EverConnected )
      => ( /\ pc' = "aborted"
           /\ lastOp'.res = "assert"
           /\ UNCHANGED <<processors, acc_inputs>> ) ]_vars

\* a disconnect of a never-connected identity failed while another identity
\* had a connection that could have been removed
C2_Witness ==
  /\ lastOp.op = "disconnect"
  /\ lastOp.res = "assert"
  /\ lastOp.scale \notin EverConnected
  /\ pc = "aborted"
  /\ live # {}

\* C3: a connectModulation call that passes its assertions (and reaches a
\* non-null accumulator) allocates exactly one Multiply whose inputs are
\* mod_sources[from] and scale, appends it to the inputs of
\* mod_destinations[to] and to no other accumulator, appends it to the
\* per-voice list, and maps scale to it in modulation_lookup.
C3_ConnectCreatesOneNode ==
  [][ ( /\ Called("connect")
        /\ lastOp'.from \in DOMAIN mod_sources
        /\ lastOp'.to \in DOMAIN mod_destinations
        /\ MapGet(mod_destinations, lastOp'.to) # NULL )
      => \E n \in Nodes' \ Nodes :
           /\ Nodes' = Nodes \cup {n}
           /\ [m \in Nodes |-> node_inputs'[m]] = node_inputs
           /\ node_inputs'[n] = << mod_sources[lastOp'.from], lastOp'.scale >>
           /\ acc_inputs' =
                [acc_inputs EXCEPT ![mod_destinations[lastOp'.to]] =
                   Append(@, n)]
           /\ processors' = Append(processors, n)
           /\ modulation_lookup'[lastOp'.scale] = n
           /\ lastOp'.res = "ok" ]_vars

\* a second connection was made, from a different source to a different
\* destination than the first
C3_Witness ==
  /\ lastOp.op = "connect"
  /\ lastOp.res = "ok"
  /\ Cardinality(Nodes) = 2
  /\ \E n, m \in Nodes :
       /\ node_inputs[n][1] # node_inputs[m][1]
       /\ \E a, b \in DOMAIN acc_inputs :
            a # b /\ n \in Range(acc_inputs[a]) /\ m \in Range(acc_inputs[b])

\* C4: after disconnectModulation(to, scale) for a live connection that was
\* made to the same destination, the connection's Multiply is neither in the
\* per-voice list nor among the inputs of mod_destinations[to].
C4_DisconnectRemovesNode ==
  [][ ( /\ Called("disconnect")
        /\ lastOp'.scale \in live
        /\ lastOp'.scale \in DOMAIN modulation_lookup
        /\ MapGet(mod_destinations, lastOp'.to) # NULL
        /\ modulation_lookup[lastOp'.scale]
             \in Range(acc_inputs[mod_destinations[lastOp'.to]]) )
      => ( /\ lastOp'.res = "ok"
           /\ modulation_lookup[lastOp'.scale] \notin Range(processors')
           /\ modulation_lookup[lastOp'.scale]
                \notin Range(acc_inputs'[mod_destinations[lastOp'.to]]) ) ]_vars

\* a live connection was disconnected through its own destination while
\* another connection stayed
C4_Witness ==
  /\ lastOp.op = "disconnect"
  /\ lastOp.res = "ok"
  /\ paired
  /\ live # {}
  /\ modulation_lookup[lastOp.scale] \notin Range(processors)

\* C5: when every connectModulation call used a scale identity with no live
\* connection and every one of them has been undone by a disconnectModulation
\* call naming the same destination, every accumulator's input list and the
\* per-voice list are what the constructor left.
C5_RoundTrip ==
  (pc = "running" /\ paired /\ live = {})
    => (processors = InitProcessors /\ acc_inputs = InitAccInputs)

\* two connections were made and both were undone
C5_Witness ==
  /\ pc = "running"
  /\ paired
  /\ live = {}
  /\ Cardinality(Nodes) = 2
  /\ lastOp.op = "disconnect"

\* C6: the nodes of two scale identities are two nodes, and a disconnect of
\* one identity leaves the node of every other identity where it was: in the
\* per-voice list, in its accumulator's inputs and in modulation_lookup.
C6_DisconnectLeavesOtherConnections ==
  [][ /\ \A s1, s2 \in DOMAIN modulation_lookup' :
           s1 # s2 => modulation_lookup'[s1] # modulation_lookup'[s2]
      /\ ( /\ Called("disconnect")
           /\ lastOp'.scale \in DOMAIN modulation_lookup )
         => \A s \in DOMAIN modulation_lookup \ {lastOp'.scale} :
              LET other == modulation_lookup[s]
              IN  /\ modulation_lookup'[s] = other
                  /\ other \in Range(processors)
                       => other \in Range(processors')
                  /\ \A a \in DOMAIN acc_inputs :
                       other \in Range(acc_inputs[a])
                         => other \in Range(acc_inputs'[a]) ]_vars

\* two connections of the same source to the same destination were made with
\* two scale identities; one was disconnected and the other is in place
C6_Witness ==
  /\ lastOp.op = "disconnect"
  /\ lastOp.res = "ok"
  /\ \E s \in live :
       LET gone == modulation_lookup[lastOp.scale]
           kept == modulation_lookup[s]
       IN  /\ s # lastOp.scale
           /\ gone # kept
           /\ node_inputs[gone][1] = node_inputs[kept][1]
           /\ gone \notin Range(processors)
           /\ kept \in Range(processors)
           /\ kept \in Range(acc_inputs[mod_destinations[lastOp.to]])

\* C7: whenever the calls made so far have passed, the keys of
\* modulation_lookup are the scale identities whose connection is live.
C7_LookupTracksLive ==
  (pc = "running" /\ lastOp.res = "ok") => DOMAIN modulation_lookup = live

\* C8: no call changes controls, mod_sources or mod_destinations, nor the
\* constructed processors of the per-voice list or of the global list.
C8_RegistriesAndConstructedFixed ==
  [][ /\ controls' = controls
      /\ mod_sources' = mod_sources
      /\ mod_destinations' = mod_destinations
      /\ Constructed(processors') = Constructed(processors)
      /\ Constructed(global_processors') = Constructed(global_processors) ]_vars

----------------------------------------------------------------------------
(* Properties of block evaluation.                                         *)

\* what an input of an accumulator showed when the accumulator was evaluated
\* in the block just done: a Value its content, a modulation node (evaluated
\* after every constructed processor) the buffer it had before the block
ShownToAccumulator(x) == IF x \in DOMAIN value THEN value[x] ELSE out[x]

\* C9: when the "osc mix" Value is set and a block is then evaluated (not the
\* first one, and with no modulation plugged into the mix accumulator), the
\* oscillator-mix Interpolate writes, in that block, the interpolation of that
\* block's oscillator outputs at the clamped new value.
C9_SetTakesEffectInBlock ==
  [][ ( /\ lastOp.op = "set"
        /\ lastOp.to = controls["osc mix"]
        /\ acc_inputs["osc_mix_sources"] = << controls["osc mix"] >>
        /\ block >= 1
        /\ Called("process") )
      => out'["oscillator_mix_"] =
           Interpolate(out'["oscillators_"], out'["oscillators_.1"],
                       Clamp(value[controls["osc mix"]], 0, FixedOne)) ]_vars

\* C10: in the block evaluated right after a connectModulation call that
\* passed, the sum the destination accumulator writes is what its other inputs
\* showed plus that block's source output times the scale content.
C10_ConnectionInFirstBlock ==
  [][ ( /\ lastOp.op = "connect"
        /\ lastOp.res = "ok"
        /\ Called("process") )
      => LET modulation_scale == modulation_lookup[lastOp.scale]
             acc == mod_destinations[lastOp.to]
             others == SelectSeq(acc_inputs[acc],
                                 LAMBDA x : x # modulation_scale)
         IN  out'[acc] =
               SumSeq([i \in 1..Len(others) |-> ShownToAccumulator(others[i])])
                 + Multiply(out'[node_inputs[modulation_scale][1]],
                            value[node_inputs[modulation_scale][2]]) ]_vars

----------------------------------------------------------------------------
(* The oscillator mix.                                                     *)

Min(a, b) == IF a < b THEN a ELSE b
Max(a, b) == IF a < b THEN b ELSE a

\* C12: whatever the "osc mix" accumulator sums to, the Output plugged as the
\* fraction of the oscillator-mix Interpolate shows a value within [0, 1],
\* and the mix lies between the two oscillator outputs it was computed from.
C12_MixFractionWithinUnit ==
  LET fraction == OutputOf(InitPlugs["oscillator_mix_"][3], out)
      from == out[InitPlugs["oscillator_mix_"][1]]
      to == out[InitPlugs["oscillator_mix_"][2]]
  IN  /\ fraction \in 0..FixedOne
      /\ out["oscillator_mix_"] \in Min(from, to)..Max(from, to)

\* the accumulator sums to more than 1.0 under a connected modulation, and
\* the Interpolate, computed on the clamped sum, is exactly at oscillator 2
C12_Witness ==
  /\ lastOp.op = "process"
  /\ Range(acc_inputs["osc_mix_sources"]) \cap Nodes # {}
  /\ out["osc_mix_sources"] > FixedOne
  /\ out["clamp_mix"] = FixedOne
  /\ out["oscillators_"] # out["oscillators_.1"]
  /\ out["oscillator_mix_"] = out["oscillators_.1"]

----------------------------------------------------------------------------
(* Registration order and wiring.                                          *)

\* every processor of the list comes after the processors of the list whose
\* output it has plugged
Topological(list) ==
  \A q \in Range(list) :
    \A p \in Inputs(q) \cap Range(list) :
      Position(list, p) < Position(list, q)

\* C13: the per-voice list is in topological order: a processor of the list
\* comes after every processor of the list whose output it has plugged.
C13_PerVoiceOrderTopological == Topological(processors)

\* C14: the global list is in topological order; in particular pitch_bend
\* comes after pitch_wheel_amount_, which it reads.
C14_GlobalOrderTopological ==
  /\ Topological(global_processors)
  /\ Position(global_processors, "pitch_wheel_amount_")
       < Position(global_processors, "pitch_bend")

\* the Values registered in controls_
ControlValues == { controls[k] : k \in DOMAIN controls }

\* C15: no processor of the global list depends, directly or through other
\* processors, on a processor of the per-voice list or on the voice's note,
\* velocity or trigger; what it has plugged is global or a control Value.
C15_GlobalReadsNoVoice ==
  \A q \in Range(global_processors) :
    /\ Upstream(q) \cap (Range(processors) \cup ExternalOutputs) = {}
    /\ Inputs(q) \subseteq Range(global_processors) \cup ControlValues

\* pitch_bend, a global processor with plugged inputs, next to a per-voice
\* Multiply node that reads the global pitch wheel
C15_Witness ==
  /\ "pitch_bend" \in Range(global_processors)
  /\ Inputs("pitch_bend") # {}
  /\ \E n \in Nodes \cap Range(processors) :
       node_inputs[n][1] \in Range(global_processors)

\* the unmodulated value of the parameter behind each destination: the
\* note for "pitch", a Value for the others
DestinationBase ==
     ( "pitch" :> "current_frequency_" )
  @@ ( "cross modulation" :> "cross_mod" )
  @@ ( "osc mix" :> "oscillator_mix_amount" )
  @@ ( "cutoff" :> "base_cutoff" )
  @@ ( "resonance" :> "resonance" )

\* the destinations whose accumulator is scaled by a range Value before it
\* meets the base
ScaledDestinations == { "pitch", "cutoff" }

\* mod_destinations[name] is an accumulator, no other destination names it
\* and no accumulator feeds it
OnlyAccumulator(name) ==
  LET acc == mod_destinations[name]
  IN  /\ acc \in DOMAIN acc_inputs
      /\ \A other \in DOMAIN InitModDestinations \ {name} :
           mod_destinations[other] # acc
      /\ Upstream(acc) \cap DOMAIN acc_inputs = {}

\* the constructed processors that have the output of p plugged
Readers(p) ==
  { q \in DOMAIN ConstructedPlugs : p \in Range(ConstructedPlugs[q]) }

\* the accumulator goes through a Multiply into an Add whose other input
\* carries the base
AddedDownstream(acc, base) ==
  \E m \in Readers(acc) : \E a \in Readers(m) :
    base \in Reach(Inputs(a) \ {m})

\* C16 as stated: every one of the five destinations is the only
\* accumulator of its parameter and has the parameter's base among the
\* inputs it sums.
C16_DestinationsSumBase ==
  \A name \in DOMAIN InitModDestinations :
    /\ OnlyAccumulator(name)
    /\ DestinationBase[name] \in Range(acc_inputs[mod_destinations[name]])

\* C16 amended: every one of the five destinations is the only accumulator
\* of its parameter; "cross modulation", "osc mix" and "resonance" have the
\* base Value plugged as their first input, while "pitch" and "cutoff" sum
\* modulation nodes only and their sum, scaled, is added to the base
\* downstream of the accumulator.
C16_DestinationsSumBaseOrAddedAfter ==
  \A name \in DOMAIN InitModDestinations :
    LET acc == mod_destinations[name]
        base == DestinationBase[name]
    IN  /\ OnlyAccumulator(name)
        /\ IF name \in ScaledDestinations
           THEN /\ Range(acc_inputs[acc]) \subseteq Nodes
                /\ AddedDownstream(acc, base)
           ELSE /\ acc_inputs[acc] # << >>
                /\ acc_inputs[acc][1] = base
                /\ base \in ControlValues

\* a modulation is plugged into the "cutoff" accumulator, which has no base,
\* and another into the "resonance" accumulator, next to its base
C16_Witness ==
  /\ Range(acc_inputs["cutoff_mod_sources"]) \cap Nodes # {}
  /\ Range(acc_inputs["resonance_sources"]) \cap Nodes # {}
  /\ "resonance" \in Range(acc_inputs["resonance_sources"])

\* C17: the ResonanceScale behind the filter's resonance input and the
\* decibel Interpolate behind its gain input depend on the same resonance
\* value: both on the base Value, and both on every modulation node that is
\* plugged into the "resonance" accumulator.
C17_ResonanceAndGainSameValue ==
  LET acc == InitModDestinations["resonance"]
  IN  \A x \in {DestinationBase["resonance"]}
                 \cup (Range(acc_inputs[acc]) \cap Nodes) :
        /\ x \in Upstream("final_resonance")
        /\ x \in Upstream("decibals")

----------------------------------------------------------------------------
(* The articulation stage.                                                 *)

Sounding == {"attack", "decay", "sustain"}

Fired(x) == voice'.trig[x] # "none"

\* C11: a voice-off that reaches a sounding voice does not cut it: the
\* amplitude envelope goes to release and the Output given to setVoiceKiller
\* keeps the level it had; the finished pulse fires in the sample where the
\* release ramp ends, only there, and the voice killer then reads zero.
C11_ReleaseThenFinishedOnce ==
  [][ Called("sample") =>
        /\ (voice'.in.event = "off" /\ voice.state \in Sounding) =>
             /\ voice'.state = "release"
             /\ voice'.sig[VoiceKiller] = voice.sig[VoiceKiller]
             /\ ~Fired("amplitude_envelope_.finished")
        /\ Fired("amplitude_envelope_.finished") <=>
             (voice.state = "release" /\ voice'.state = "idle")
        /\ Fired("amplitude_envelope_.finished") =>
             voice'.sig[VoiceKiller] = 0
        /\ (voice.state = "release" /\ voice'.state = "release") =>
             voice'.sig[VoiceKiller] = voice.sig[VoiceKiller] ]_vars

\* a voice released by a voice-off whose release ramp has just ended: the
\* finished pulse is out, the envelope is idle and the voice killer reads 0
C11_Witness ==
  /\ lastOp.op = "sample"
  /\ voice.last_trigger = "off"
  /\ voice.state = "idle"
  /\ voice.trig["amplitude_envelope_.finished"] = "reset"
  /\ voice.sig[VoiceKiller] = 0

\* C18: in a sample that carries a voice event exactly one of retrigger and
\* remain fires, tagged with that event; the amplitude envelope is triggered
\* by retrigger and by nothing else, so never in a sample where remain
\* fires; remain makes the note-change combiner fire; and with legato off
\* it is retrigger that fires.
C18_ExactlyOneOfRetriggerRemain ==
  [][ (Called("sample") /\ voice'.in.event # "none") =>
        LET retrigger == voice'.trig["legato_filter.retrigger"]
            remain == voice'.trig["legato_filter.remain"]
        IN  /\ \/ retrigger = voice'.in.event /\ remain = "none"
               \/ remain = voice'.in.event /\ retrigger = "none"
            /\ voice'.env_trigger = retrigger
            /\ remain # "none" =>
                 /\ voice'.env_trigger = "none"
                 /\ Fired("note_change_trigger_")
            /\ voice.legato = 0 => retrigger # "none" ]_vars

\* a voice-on under legato on a voice whose last event was a voice-on:
\* remain has fired, the envelope was not triggered and goes on sounding
C18_Witness ==
  /\ lastOp.op = "sample"
  /\ voice.in.event = "on"
  /\ voice.legato # 0
  /\ voice.trig["legato_filter.remain"] = "on"
  /\ voice.trig["legato_filter.retrigger"] = "none"
  /\ voice.env_trigger = "none"
  /\ voice.state \in {"decay", "sustain"}

\* the latched note and velocity are those of the last voice-on
OnsetCaptured(v) ==
  /\ v.sig["current_note"] = v.onset.note
  /\ v.sig["current_velocity"] = v.onset.velocity

\* C19: the note and velocity supplied with a voice-on are captured before
\* the attack it starts: after every sample in which the amplitude envelope
\* is in its attack, and after every voice-on that fires remain (a note
\* change under legato, without attack), the current note and the current
\* velocity are those supplied with the last voice-on.
C19_OnsetCaptured ==
  [][ (/\ Called("sample")
       /\ \/ voice'.state = "attack"
          \/ voice'.trig["legato_filter.remain"] = "on") =>
        OnsetCaptured(voice') ]_vars

\* C20: in a sample where the note-change combiner does not fire, the
\* current note and the current velocity are what they were before the
\* sample, whatever the note and velocity inputs carry.
C20_HeldWithoutNoteChange ==
  [][ (Called("sample") /\ ~Fired("note_change_trigger_")) =>
        /\ voice'.sig["current_note"] = voice.sig["current_note"]
        /\ voice'.sig["current_velocity"] = voice.sig["current_velocity"] ]_vars

\* a note and a velocity were latched earlier; the last sample carried a
\* voice event with another note and velocity, the combiner stayed silent
\* and the latched pair is still there
C20_Witness ==
  /\ lastOp.op = "sample"
  /\ voice.in.event # "none"
  /\ voice.trig["note_change_trigger_"] = "none"
  /\ voice.sig["current_note"] \in Notes \ {voice.in.note}
  /\ voice.sig["current_velocity"] \in Velocities \ {voice.in.velocity}

----------------------------------------------------------------------------
(* Capacity and bookkeeping of the modulation matrix.                      *)

\* C21: no accumulator has more inputs plugged, its base Value included,
\* than the capacity it was constructed with.
C21_InputsWithinCapacity ==
  \A acc \in DOMAIN acc_inputs :
    Len(acc_inputs[acc]) <= MAX_MODULATION_CONNECTIONS

\* C22: while no assertion has failed, every modulation Multiply node that
\* is plugged into an accumulator is in the per-voice list.
C22_NoDanglingInput ==
  pc = "running" =>
    \A acc \in DOMAIN acc_inputs :
      Range(acc_inputs[acc]) \cap Nodes \subseteq Range(processors)

\* every modulation Multiply node of the per-voice list is the value of a
\* modulation_lookup entry
NoOrphanNode ==
  \A n \in Nodes \cap Range(processors) :
    \E scale \in DOMAIN modulation_lookup : modulation_lookup[scale] = n

\* C23 as stated: while no assertion has failed, every modulation Multiply
\* node of the per-voice list is the value of a modulation_lookup entry,
\* also after a connect that reuses a scale identity not yet disconnected.
C23_NoOrphanAfterAnyCalls == pc = "running" => NoOrphanNode

\* C23 amended: every call other than a connectModulation with a scale
\* identity that is still connected keeps every modulation Multiply node of
\* the per-voice list the value of a modulation_lookup entry.
C23_NoOrphanUnlessLiveScaleReused ==
  [][ (/\ NoOrphanNode
       /\ ~(Called("connect") /\ lastOp'.scale \in live)) =>
        NoOrphanNode' ]_vars

\* a scale identity connected, disconnected and connected again: the first
\* node has left the list, the second is in it and is what the identity
\* maps to
C23_Witness ==
  /\ lastOp.op = "connect"
  /\ lastOp.res = "ok"
  /\ Nodes = {NodeName(1), NodeName(2)}
  /\ node_inputs[NodeName(1)][2] = lastOp.scale
  /\ NodeName(1) \notin Range(processors)
  /\ NodeName(2) \in Range(processors)
  /\ modulation_lookup[lastOp.scale] = NodeName(2)

====
